---- MODULE Spec2Model ----
(***************************************************************************)
(* Temp-file lifecycle and rate limiting of the SaveMedia services.        *)
(*                                                                         *)
(* The repository holds four independent server programs, each its own     *)
(* process with its own state:                                             *)
(*   aap.py          FastAPI, one upload per request, NamedTemporaryFile   *)
(*   app.py          FastAPI, many uploads per request, mkdtemp            *)
(*   main.py         FastAPI, temp/uploads and temp/output, FileResponse   *)
(*   application.py  Flask, per-client sliding-window rate limiter         *)
(* Each program has its own specification (SpecAap, SpecApp, SpecMain,     *)
(* SpecRate); the variables of the other programs stay parked.             *)
(***************************************************************************)
EXTENDS Integers, Sequences, FiniteSets, TLC

\* Requests each FastAPI service handles in one run.
MaxReqs == 2

Reqs == 1..MaxReqs

Range(s) == {s[i] : i \in DOMAIN s}

(***************************************************************************)
(* Uploads: what a client may send.                                        *)
(***************************************************************************)

\* aap.py:20  MAX_UPLOAD_SIZE = 200 * 1024 * 1024
MAX_UPLOAD_SIZE == 200 * 1024 * 1024

\* main.py:24  MAX_FILE_SIZE = 50 * 1024 * 1024
MAX_FILE_SIZE == 50 * 1024 * 1024

\* An upload without a file name (UploadFile.filename empty).
NoName == [stem |-> "", suffix |-> ""]

\* str.lower() on the suffixes the model sends.
Lower(s) ==
    CASE s = ".PDF"  -> ".pdf"
      [] s = ".DOCX" -> ".docx"
      [] s = ".PNG"  -> ".png"
      [] OTHER       -> s

ImageExts  == {".png", ".jpg", ".jpeg", ".webp", ".tiff", ".bmp"}
TextExts   == {".txt"}
OfficeExts == {".doc", ".docx", ".odt", ".ppt", ".pptx", ".xls", ".xlsx"}

\* The suffixes of the uploads the model sends: one or two of each class the
\* dispatch distinguishes, upper-case variants, an unknown one and none.
SampleSuffixes == {".png", ".txt", ".docx", ".pdf", ".PDF", ".xyz"}

Named(s) == [stem |-> "photo", suffix |-> s]

SampleNames == {NoName} \cup {Named(s) : s \in SampleSuffixes}

\* Uploads of an ordinary size, and a few larger than the configured ceiling.
UploadsOfSize(names, size) == {[filename |-> n, size |-> size] : n \in names}

\* What the host does to the one converter delegate a conversion invokes:
\*   "ok"              the delegate succeeds
\*   "lib_raise"       the in-process library (PIL, reportlab, fitz) raises
\*   "no_soffice"      shutil.which finds neither soffice nor libreoffice
\*   "no_output"       the subprocess ends and leaves no output file
\*   "timeout"         subprocess.run raises TimeoutExpired, nothing written
\*   "timeout_partial" TimeoutExpired after the output file was created
Envs == {"ok", "lib_raise", "no_soffice", "no_output", "timeout", "timeout_partial"}

VARIABLES
    aapFiles,   \* aap.py: the paths that exist in the temp directory
    aapReq      \* aap.py: per request, where it is and what it did

aapVars == <<aapFiles, aapReq>>

VARIABLES
    tempRoot,   \* app.py: tempfile.gettempdir(), fixed when the process starts
    appFs,      \* app.py: the directories and files that exist, as paths
    appReq      \* app.py: per request, where it is and what it did

appVars == <<tempRoot, appFs, appReq>>

VARIABLES
    mainFs,     \* main.py: the files that exist under temp/uploads and temp/output
    mainReq     \* main.py: per request, where it is and what it did

mainVars == <<mainFs, mainReq>>

VARIABLES
    now,            \* application.py: what time.time() returns
    request_counts, \* application.py: client address -> admitted timestamps kept
    admitted,       \* history: <<client, endpoint>> -> every timestamp let through
    calls,          \* history: the requests received so far
    answered        \* history: client -> its requests and their answers, in order

rateVars == <<now, request_counts, admitted, calls, answered>>

VARIABLES
    media       \* application.py: the /info or /download request being handled

mediaVars == <<media>>

VARIABLES
    genOut,     \* converters: what each <session_id>.pdf under temp/output holds
    genCall     \* converters: the last call of PDFGenerator.convert_single

genVars == <<genOut, genCall>>

VARIABLES
    conc        \* application.py: requests of one client inside rate_limit at once

concVars == <<conc>>

VARIABLES
    extFs,      \* converters: the files that exist under temp/output, by name
    extCall     \* converters: the last call of a PDFExtractor method

extVars == <<extFs, extCall>>

vars == <<aapVars, appVars, mainVars, rateVars, mediaVars, genVars, concVars, extVars>>

\* What an action of one program leaves alone: the other programs.
notConc == <<aapVars, appVars, mainVars, rateVars, mediaVars, genVars, extVars>>
notExt == <<aapVars, appVars, mainVars, rateVars, mediaVars, genVars, concVars>>
notAap  == <<appVars, mainVars, rateVars, mediaVars, genVars, concVars, extVars>>
notApp  == <<aapVars, mainVars, rateVars, mediaVars, genVars, concVars, extVars>>
notMain == <<aapVars, appVars, rateVars, mediaVars, genVars, concVars, extVars>>
notRate == <<aapVars, appVars, mainVars, mediaVars, genVars, concVars, extVars>>
notMedia == <<aapVars, appVars, mainVars, rateVars, genVars, concVars, extVars>>
notGen == <<aapVars, appVars, mainVars, rateVars, mediaVars, concVars, extVars>>

(***************************************************************************)
(* aap.py                                                                  *)
(***************************************************************************)

\* A NamedTemporaryFile name: a unique random stem plus the upload's suffix.
\* The request id stands for the random stem.
NoPath == [stem |-> 0, suffix |-> ""]
TmpPath(r, suffix) == [stem |-> r, suffix |-> suffix]

\* pathlib.Path.with_suffix
WithSuffix(p, s) == [p EXCEPT !.suffix = s]

\* A world is the temp directory plus the record of what was done to it.
\*   files: existing paths, unlinked: the unlink calls made, in order.
AapWorld(files) == [files |-> files, unlinked |-> <<>>]

\* aap.py: cleanup_path without the test p.exists(): unlink is called on
\* whatever path it is given
AapCleanupPathNoExists(w, p) ==
    [files |-> w.files \ {p}, unlinked |-> Append(w.unlinked, p)]

\* aap.py: cleanup_path
AapCleanupPath(w, p) ==
    IF p \in w.files
    THEN [files |-> w.files \ {p}, unlinked |-> Append(w.unlinked, p)]
    ELSE w

\* aap.py: the finally block of convert_to_pdf, with the cleanup of the input
\* left out
AapToPdfFinallyKeepInput(w, tmp_in) ==
    AapCleanupPath(w, WithSuffix(tmp_in, ".pdf"))

\* aap.py: the finally block of convert_to_pdf
AapToPdfFinally(w, tmp_in) ==
    AapCleanupPath(AapCleanupPath(w, tmp_in), WithSuffix(tmp_in, ".pdf"))

\* aap.py: the finally block of convert_from_pdf, with the .docx cleanup left out
AapFromPdfFinallyNoDocx(w, tmp_in) ==
    AapCleanupPath(AapCleanupPath(w, tmp_in), WithSuffix(tmp_in, ".pdf"))

\* aap.py: the finally block of convert_from_pdf
AapFromPdfFinally(w, tmp_in) ==
    AapCleanupPath(
        AapCleanupPath(AapCleanupPath(w, tmp_in), WithSuffix(tmp_in, ".docx")),
        WithSuffix(tmp_in, ".pdf"))

\* The outcome of a handler's try block.
\*   status/detail: the response line; body: how the body is produced
\*   ("buffer": bytes in memory, "handle": a file object opened in the handler,
\*   "iter_file": a generator that opens bodyPath when it is first iterated,
\*   "error": a JSON error); files: the temp directory afterwards;
\*   conv: the converter delegates invoked, in order; soffice: what the
\*   lookup of the LibreOffice binary gave ("unasked" when it was not made).
AapOutcome(status, detail, body, bodyPath, files, conv) ==
    [status |-> status, detail |-> detail, body |-> body, bodyPath |-> bodyPath,
     files |-> files, conv |-> conv, soffice |-> "unasked"]

\* aap.py: subprocess.run([soffice, "--headless", "--convert-to", target,
\* "--outdir", tmp_in.parent, tmp_in], timeout=180) and the check that follows.
\* LibreOffice writes <stem>.<target> next to the input.
AapOffice(tmp_in, target, env, files) ==
    LET converted == WithSuffix(tmp_in, target)
        out ==
            CASE env = "no_soffice" ->
                    AapOutcome(500, "soffice-not-found", "error", NoPath, files, <<>>)
              [] env = "no_output" ->
                    AapOutcome(500, "conversion-failed", "error", NoPath, files,
                               <<"soffice">>)
              [] env = "timeout" ->
                    AapOutcome(500, "timeout", "error", NoPath, files, <<"soffice">>)
              [] env = "timeout_partial" ->
                    AapOutcome(500, "timeout", "error", NoPath,
                               files \cup {converted}, <<"soffice">>)
              [] OTHER ->
                    AapOutcome(200, "", "iter_file", converted,
                               files \cup {converted}, <<"soffice">>)
    IN [out EXCEPT !.soffice = IF env = "no_soffice" THEN "missing" ELSE "found"]

\* A call into PIL / reportlab / fitz that builds the body in memory.
AapLibrary(name, env, files) ==
    IF env = "lib_raise"
    THEN AapOutcome(500, "library-exception", "error", NoPath, files, <<name>>)
    ELSE AapOutcome(200, "", "buffer", NoPath, files, <<name>>)

\* aap.py: the try block of convert_to_pdf (lines 75-130)
AapToPdfTry(tmp_in, env, files) ==
    LET ext == Lower(tmp_in.suffix) IN
    CASE ext \in ImageExts  -> AapLibrary("PIL", env, files)
      [] ext \in TextExts   -> AapLibrary("reportlab", env, files)
      [] ext \in OfficeExts -> AapOffice(tmp_in, ".pdf", env, files)
      [] ext = ".pdf"       -> AapOutcome(200, "", "handle", tmp_in, files, <<>>)
      [] OTHER -> AapOutcome(400, "unsupported-format", "error", NoPath, files, <<>>)

\* aap.py: the try block of convert_from_pdf (lines 151-191)
AapFromPdfTry(tmp_in, format, env, files) ==
    IF Lower(tmp_in.suffix) # ".pdf"
    THEN AapOutcome(400, "not-a-pdf", "error", NoPath, files, <<>>)
    ELSE CASE format = "text"  -> AapLibrary("fitz", env, files)
           [] format = "image" -> AapLibrary("fitz", env, files)
           [] format = "docx"  -> AapOffice(tmp_in, ".docx", env, files)

\* Path.name of a temp path: the random stem NamedTemporaryFile gave it,
\* written "tmp<r>", plus the suffix.
TmpName(p) == [stem |-> "tmp" \o ToString(p.stem), suffix |-> p.suffix]

\* aap.py: the filename convert_to_pdf puts into Content-Disposition
\* (lines 85, 104, 121, 127), by branch.
\*   image, text: Path(file.filename).stem + ".pdf"
\*   office:      converted.name, the name of the temp output
\*   pdf:         Path(file.filename).name
AapToPdfDisposition(filename, tmp_in) ==
    LET ext == Lower(tmp_in.suffix) IN
    CASE ext \in ImageExts \cup TextExts -> [filename EXCEPT !.suffix = ".pdf"]
      [] ext \in OfficeExts -> TmpName(WithSuffix(tmp_in, ".pdf"))
      [] OTHER -> filename

\* aap.py: the filename convert_from_pdf puts into Content-Disposition
\* (lines 162, 175, 190).
AapFromPdfDisposition(filename, tmp_in, format) ==
    CASE format = "text"  -> [filename EXCEPT !.suffix = ".txt"]
      [] format = "image" -> [stem |-> filename.stem \o "_pages", suffix |-> ".zip"]
      [] OTHER            -> TmpName(WithSuffix(tmp_in, ".docx"))

AapUploads ==
    UploadsOfSize(SampleNames, 1)
        \cup UploadsOfSize({Named(".png"), Named(".docx")}, MAX_UPLOAD_SIZE + 1)

AapBlank ==
    [pc |-> "new", endpoint |-> "none", upload |-> [filename |-> NoName, size |-> 0],
     format |-> "", status |-> 0, detail |-> "", body |-> "none", bodyPath |-> NoPath,
     tmp_in |-> NoPath, created |-> {}, unlinked |-> <<>>, conv |-> <<>>,
     soffice |-> "unasked", filename |-> NoName]

\* The request record once the handler has returned or raised.
AapFinished(endpoint, up, format, tmp_in, out, w, before) ==
    [pc |-> "responding", endpoint |-> endpoint, upload |-> up, format |-> format,
     status |-> out.status, detail |-> out.detail, body |-> out.body,
     bodyPath |-> out.bodyPath, tmp_in |-> tmp_in,
     created |-> (out.files \ before) \cup (IF tmp_in = NoPath THEN {} ELSE {tmp_in}),
     unlinked |-> w.unlinked, conv |-> out.conv, soffice |-> out.soffice,
     filename |-> NoName]

\* aap.py: POST /convert/to-pdf, from the call to the return of the handler.
AapConvertToPdf(r, up, env) ==
    /\ aapReq[r].pc = "new"
    /\ IF up.filename = NoName
       THEN /\ aapReq' = [aapReq EXCEPT ![r] =
                   AapFinished("to-pdf", up, "", NoPath,
                       AapOutcome(400, "no-file", "error", NoPath, aapFiles, <<>>),
                       AapWorld(aapFiles), aapFiles)]
            /\ UNCHANGED aapFiles
       ELSE LET tmp_in == TmpPath(r, up.filename.suffix)
                out    == AapToPdfTry(tmp_in, env, aapFiles \cup {tmp_in})
                w      == AapToPdfFinally(AapWorld(out.files), tmp_in)
            IN /\ aapFiles' = w.files
               /\ aapReq' = [aapReq EXCEPT ![r] =
                      [AapFinished("to-pdf", up, "", tmp_in, out, w, aapFiles)
                          EXCEPT !.filename =
                              IF out.status = 200
                              THEN AapToPdfDisposition(up.filename, tmp_in)
                              ELSE NoName]]
    /\ UNCHANGED notAap

AapFormats == {"image", "docx", "text", "html"}

\* aap.py: POST /convert/from-pdf, from the call to the return of the handler.
AapConvertFromPdf(r, up, format, env) ==
    /\ aapReq[r].pc = "new"
    /\ IF format \notin {"image", "docx", "text"}
       THEN /\ aapReq' = [aapReq EXCEPT ![r] =
                   AapFinished("from-pdf", up, format, NoPath,
                       AapOutcome(400, "bad-format", "error", NoPath, aapFiles, <<>>),
                       AapWorld(aapFiles), aapFiles)]
            /\ UNCHANGED aapFiles
       ELSE LET tmp_in == TmpPath(r, up.filename.suffix)
                out    == AapFromPdfTry(tmp_in, format, env, aapFiles \cup {tmp_in})
                w      == AapFromPdfFinally(AapWorld(out.files), tmp_in)
            IN /\ aapFiles' = w.files
               /\ aapReq' = [aapReq EXCEPT ![r] =
                      [AapFinished("from-pdf", up, format, tmp_in, out, w, aapFiles)
                          EXCEPT !.filename =
                              IF out.status = 200
                              THEN AapFromPdfDisposition(up.filename, tmp_in, format)
                              ELSE NoName]]
    /\ UNCHANGED notAap

\* Starlette sends the response after the handler has returned: it iterates the
\* body. A buffer, an error body and an already open file object are read as
\* they are (an unlinked file stays readable through its open descriptor);
\* iter_file opens its path on the first iteration, and a missing path raises
\* FileNotFoundError after the status line has gone out.
AapStream(r) ==
    /\ aapReq[r].pc = "responding"
    /\ aapReq' = [aapReq EXCEPT ![r].pc =
           IF aapReq[r].body = "iter_file" /\ aapReq[r].bodyPath \notin aapFiles
           THEN "aborted" ELSE "done"]
    /\ UNCHANGED <<aapFiles, notAap>>

(***************************************************************************)
(* app.py                                                                  *)
(*                                                                         *)
(* A path is a sequence of names, outermost first. A name is                *)
(* [head, id, ext]: head is how the name begins (what str.startswith        *)
(* looks at), id stands for the random characters mkdtemp adds, ext is the  *)
(* suffix.                                                                  *)
(***************************************************************************)

\* Uploads per app.py request.
MaxFiles == 2

AppName(head, id, ext) == [head |-> head, id |-> id, ext |-> ext]

\* tempfile.gettempdir(): /tmp unless TMPDIR says otherwise; a macOS-style
\* .../T is the other kind of root, one whose name does not begin with "tmp".
TempRoots == {<<AppName("tmp", 0, "")>>, <<AppName("T", 0, "")>>}

\* pathlib: Path.parent, Path.name, Path.exists
Parent(p) == SubSeq(p, 1, Len(p) - 1)
BaseName(p) == p[Len(p)]
IsPrefix(d, p) == Len(d) <= Len(p) /\ SubSeq(p, 1, Len(d)) = d
Under(fs, d) == {p \in fs : IsPrefix(d, p)}

\* Files live inside the directories mkdtemp makes right below the temp root.
IsFile(p, root) == Len(p) = Len(root) + 2

\* str.startswith("tmp") on a path's name
StartsWithTmp(name) == name.head = "tmp"

\* The n-th directory mkdtemp makes for request r: prefix "tmp" plus random
\* characters no other call gets.
DirId(r, n) == (r - 1) * (2 * MaxFiles) + n
MkdtempPath(root, r, n) == Append(root, AppName("tmp", DirId(r, n), ""))

\* shutil.rmtree(d): the file systems it may leave. A directory the process
\* made itself goes completely. Of the shared temp root everything below it
\* goes (the process made all of it), and the final rmdir of the root itself
\* succeeds for a process that may remove it (one running as root) and raises
\* otherwise.
RmtreeOutcomes(fs, d, root) ==
    IF d # root
    THEN {fs \ Under(fs, d)}
    ELSE {fs \ Under(fs, d), (fs \ Under(fs, d)) \cup {d}}

\* app.py: cleanup_path. The possible file systems afterwards. unlink on a
\* directory raises, and the except clause swallows it.
AppCleanupPath(fs, p, root) ==
    IF p \notin fs THEN {fs}
    ELSE IF Len(p) > 1 /\ StartsWithTmp(BaseName(Parent(p)))
         THEN RmtreeOutcomes(fs, Parent(p), root)
         ELSE IF IsFile(p, root) THEN {fs \ {p}} ELSE {fs}

\* paths_to_cleanup, cleaned in list order (app.py lines 159-160, 243-244):
\* the file systems that may be left after cleaning paths[k..].
RECURSIVE AppCleanupFrom(_, _, _, _)
AppCleanupFrom(fs, paths, k, root) ==
    IF k > Len(paths) THEN {fs}
    ELSE UNION {AppCleanupFrom(fs2, paths, k + 1, root) :
                    fs2 \in AppCleanupPath(fs, paths[k], root)}

\* What the model sends to /convert/to-pdf and to /convert/from-pdf.
AppToPdfUploads == UploadsOfSize({Named(s) : s \in {".png", ".docx", ".xyz"}}, 1)
AppFromPdfUploads == UploadsOfSize({Named(s) : s \in {".pdf", ".PDF", ".png"}}, 1)

AppFileLists == UNION {[1..n -> AppToPdfUploads] : n \in 0..MaxFiles}

AppBlank ==
    [pc |-> "new", endpoint |-> "none", files |-> <<>>, as_single |-> TRUE,
     format |-> "", i |-> 1, paths |-> <<>>, buffers |-> <<>>, dirs |-> 0,
     status |-> 0, detail |-> "", body |-> "none",
     created |-> {}, removed |-> {}, events |-> <<>>, failedAt |-> 0,
     filename |-> NoName, pages |-> <<>>]

\* The handler's locals while it works on one upload: q is the request record,
\* fs the file system, tmp_in the saved upload.
AppLocal(q, fs) == [q |-> q, fs |-> fs, tmp_in |-> <<>>]

AppFail(l, status, detail) ==
    [l EXCEPT !.q.status = status, !.q.detail = detail]

\* tempfile.mkdtemp(): a new directory below the temp root; it raises when the
\* temp root is gone.
AppMkdtemp(l, r, root) ==
    LET d == MkdtempPath(root, r, l.q.dirs + 1) IN
    [l EXCEPT !.fs = @ \cup {d}, !.q.dirs = @ + 1, !.q.created = @ \cup {d}]

\* app.py: save_upload_tmp, then paths_to_cleanup.append(tmp_in)
AppSaveUploadTmp(l, r, k, up, root) ==
    IF root \notin l.fs
    THEN AppFail(l, 500, "no-temp-directory")
    ELSE LET l1 == AppMkdtemp(l, r, root)
             d  == MkdtempPath(root, r, l.q.dirs + 1)
             f  == Append(d, AppName(up.filename.stem, 0, up.filename.suffix))
         IN [l1 EXCEPT !.fs = @ \cup {f}, !.tmp_in = f,
                       !.q.created = @ \cup {f},
                       !.q.paths = Append(@, f),
                       !.q.events = Append(@, <<"save", k>>)]

\* A converter delegate is invoked on upload k.
AppInvoke(l, k) == [l EXCEPT !.q.events = Append(@, <<"conv", k>>)]

\* pdf_buffers.append(buf)
AppKeep(l, k) == [l EXCEPT !.q.buffers = Append(@, k)]

\* app.py: the office branch (lines 122-138) and its twin in convert_from_pdf
\* (lines 222-236): which, mkdtemp, subprocess.run, the check of the output.
AppOffice(l, r, k, target, env, root) ==
    IF env = "no_soffice" THEN AppFail(l, 500, "soffice-not-found")
    ELSE IF root \notin l.fs THEN AppFail(l, 500, "no-temp-directory")
    ELSE LET outdir    == MkdtempPath(root, r, l.q.dirs + 1)
             l1        == [AppMkdtemp(l, r, root) EXCEPT !.q.paths = Append(@, outdir)]
             l2        == AppInvoke(l1, k)
             converted == Append(outdir, [BaseName(l.tmp_in) EXCEPT !.ext = target])
             written   == [l2 EXCEPT !.fs = @ \cup {converted},
                                     !.q.created = @ \cup {converted}]
         IN CASE env = "no_output"       -> AppFail(l2, 500, "conversion-failed")
              [] env = "timeout"         -> AppFail(l2, 500, "timeout")
              [] env = "timeout_partial" -> AppFail(written, 500, "timeout")
              [] OTHER                   -> written

\* PIL / reportlab / fitz working on the saved upload.
AppLibrary(l, k, env) ==
    IF env = "lib_raise" \/ l.tmp_in \notin l.fs
    THEN AppFail(AppInvoke(l, k), 500, "library-exception")
    ELSE AppInvoke(l, k)

\* app.py: the try block of one loop iteration (lines 100-149), before the
\* except clause.
AppToPdfTry(l, r, k, env, root) ==
    LET ext == Lower(BaseName(l.tmp_in).ext) IN
    CASE ext \in ImageExts  -> AppLibrary(l, k, env)
      [] ext \in TextExts   -> AppLibrary(l, k, env)
      [] ext \in OfficeExts -> AppOffice(l, r, k, ".pdf", env, root)
      [] ext = ".pdf"       -> l
      [] OTHER              -> AppFail(l, 400, "unsupported-format")

\* app.py: the except clause (lines 151-153): whatever was raised, an
\* HTTPException included, leaves as HTTPException(500).
AppExcept(l) ==
    IF l.q.status = 0 THEN l ELSE [l EXCEPT !.q.status = 500]

\* app.py: one iteration of the loop, with the converter started on the upload
\* before save_upload_tmp has written it
AppIterateConvertFirst(l, r, k, up, env, root) ==
    LET saved == AppSaveUploadTmp(AppInvoke(l, k), r, k, up, root) IN
    IF saved.q.status # 0 THEN saved
    ELSE LET done == AppExcept(AppToPdfTry(saved, r, k, env, root)) IN
         IF done.q.status # 0 THEN done ELSE AppKeep(done, k)

\* app.py: one iteration of the loop of convert_to_pdf (lines 93-156): save
\* the upload, then convert it.
AppIterate(l, r, k, up, env, root) ==
    LET saved == AppSaveUploadTmp(l, r, k, up, root) IN
    IF saved.q.status # 0 THEN saved
    ELSE LET done == AppExcept(AppToPdfTry(saved, r, k, env, root)) IN
         IF done.q.status # 0 THEN done ELSE AppKeep(done, k)

\* app.py: POST /convert/to-pdf arrives with its uploads (lines 85-91).
AppConvertToPdfBegin(r, files, as_single) ==
    /\ appReq[r].pc = "new"
    /\ appReq' = [appReq EXCEPT ![r] =
           IF files = <<>>
           THEN [AppBlank EXCEPT !.pc = "done", !.endpoint = "to-pdf",
                                 !.as_single = as_single,
                                 !.status = 400, !.detail = "no-file", !.body = "error"]
           ELSE [AppBlank EXCEPT !.pc = "loop", !.endpoint = "to-pdf",
                                 !.files = files, !.as_single = as_single]]
    /\ UNCHANGED <<tempRoot, appFs, notApp>>

\* The pages of the PDF a converter makes of upload k: Pillow writes the one
\* frame of an image as one page, the sample office document fills two.
\* A page is <<k, n>>: page n of the PDF made of upload k.
PdfPages(files, k) ==
    LET n == IF Lower(files[k].filename.suffix) \in OfficeExts THEN 2 ELSE 1
    IN [p \in 1..n |-> <<k, p>>]

\* PdfMerger.append with the document put in front of what is already there
PdfMergerPrepend(merged, pdf) == pdf \o merged

\* PyPDF2: PdfMerger.append(fileobj) adds every page of the document after the
\* pages already in the merger.
PdfMergerAppend(merged, pdf) == merged \o pdf

\* app.py lines 164-167: merger = PdfMerger(); for pdf in pdf_buffers:
\* merger.append(...). The merger after pdf_buffers[1..n] went in.
RECURSIVE AppMerge(_, _, _)
AppMerge(files, buffers, n) ==
    IF n = 0 THEN <<>>
    ELSE PdfMergerAppend(AppMerge(files, buffers, n - 1),
                         PdfPages(files, buffers[n]))

\* app.py: the response convert_to_pdf builds after the loop (lines 163-186).
AppToPdfResponse(q) ==
    IF q.as_single /\ Len(q.buffers) > 1
    THEN [q EXCEPT !.pc = "done", !.status = 200, !.body = "buffer",
                   !.filename = [stem |-> "merged", suffix |-> ".pdf"],
                   !.pages = AppMerge(q.files, q.buffers, Len(q.buffers))]
    ELSE IF q.buffers = <<>>
    THEN [q EXCEPT !.pc = "done", !.status = 500,
                   !.detail = "no-pdf-generated", !.body = "error"]
    ELSE [q EXCEPT !.pc = "done", !.status = 200, !.body = "buffer",
                   !.filename = [stem |-> "converted", suffix |-> ".pdf"],
                   !.pages = PdfPages(q.files, q.buffers[1])]

\* app.py: the next iteration of the loop of convert_to_pdf and, after the
\* last upload, the cleanup loop and the response. An exception leaves the
\* handler at once: the cleanup loop is not reached.
AppConvertToPdfStep(r, env) ==
    /\ appReq[r].pc = "loop"
    /\ LET q == appReq[r]
           l == AppIterate(AppLocal(q, appFs), r, q.i, q.files[q.i], env, tempRoot)
       IN IF l.q.status # 0
          THEN /\ appFs' = l.fs
               /\ appReq' = [appReq EXCEPT ![r] =
                      [l.q EXCEPT !.pc = "done", !.body = "error",
                                  !.failedAt = q.i]]
          ELSE IF q.i < Len(q.files)
          THEN /\ appFs' = l.fs
               /\ appReq' = [appReq EXCEPT ![r] = [l.q EXCEPT !.i = @ + 1]]
          ELSE \E fs2 \in AppCleanupFrom(l.fs, l.q.paths, 1, tempRoot) :
                   /\ appFs' = fs2
                   /\ appReq' = [appReq EXCEPT ![r] =
                          AppToPdfResponse([l.q EXCEPT !.i = @ + 1,
                                                       !.removed = l.fs \ fs2])]
    /\ UNCHANGED <<tempRoot, notApp>>

AppFormats == {"image", "docx", "text", "html"}

\* app.py: the try block of convert_from_pdf (lines 200-240).
AppFromPdfTry(l, r, format, env, root) ==
    IF Lower(BaseName(l.tmp_in).ext) # ".pdf"
    THEN AppFail(l, 400, "not-a-pdf")
    ELSE CASE format = "text"  -> AppLibrary(l, 1, env)
           [] format = "image" -> AppLibrary(l, 1, env)
           [] format = "docx"  -> AppOffice(l, r, 1, ".docx", env, root)
           [] OTHER            -> l

\* app.py: POST /convert/from-pdf, from the call to the return of the handler.
\* save_upload_tmp runs before the try; the finally block cleans
\* paths_to_cleanup on every way out of the try.
AppConvertFromPdf(r, up, format, env) ==
    /\ appReq[r].pc = "new"
    /\ LET q0 == [AppBlank EXCEPT !.endpoint = "from-pdf", !.files = <<up>>,
                                  !.format = format]
           l0 == AppSaveUploadTmp(AppLocal(q0, appFs), r, 1, up, tempRoot)
       IN IF l0.q.status # 0
          THEN /\ appReq' = [appReq EXCEPT ![r] =
                      [l0.q EXCEPT !.pc = "done", !.body = "error"]]
               /\ UNCHANGED appFs
          ELSE LET l == AppFromPdfTry(l0, r, format, env, tempRoot) IN
               \E fs2 \in AppCleanupFrom(l.fs, l.q.paths, 1, tempRoot) :
                   /\ appFs' = fs2
                   /\ appReq' = [appReq EXCEPT ![r] =
                          [l.q EXCEPT !.pc = "done",
                                      !.removed = l.fs \ fs2,
                                      !.status = IF l.q.status = 0 THEN 200 ELSE @,
                                      !.body = IF l.q.status # 0 THEN "error"
                                               ELSE IF format = "docx" THEN "handle"
                                               ELSE IF format \in {"text", "image"}
                                               THEN "buffer" ELSE "none"]]
    /\ UNCHANGED <<tempRoot, notApp>>

InitApp ==
    /\ tempRoot \in TempRoots
    /\ appFs = {tempRoot}
    /\ appReq = [r \in Reqs |-> AppBlank]

\* The state app.py's variables keep while another program is looked at.
ParkedApp ==
    /\ tempRoot = <<AppName("tmp", 0, "")>>
    /\ appFs = {tempRoot}
    /\ appReq = [r \in Reqs |-> AppBlank]

NextApp ==
    \/ \E r \in Reqs, files \in AppFileLists, as_single \in BOOLEAN :
           AppConvertToPdfBegin(r, files, as_single)
    \/ \E r \in Reqs, env \in Envs : AppConvertToPdfStep(r, env)
    \/ \E r \in Reqs, up \in AppFromPdfUploads, f \in AppFormats, env \in Envs :
           AppConvertFromPdf(r, up, f, env)

(***************************************************************************)
(* main.py                                                                 *)
(***************************************************************************)

\* A file under temp/: UPLOAD_DIR or OUTPUT_DIR, the request's session_id
\* (uuid4), the part of the name that follows it, and the rest of the name.
\*   uploads/<session>_<filename>        part "_"
\*   uploads/<session>_<i>_<filename>    part "_<i>_"
\*   output/<session>.pdf                part ""
\*   output/<session>_combined.pdf       part "_combined"
\*   output/<session>.txt                part ""
MainPath(dir, session, part, name) ==
    [dir |-> dir, session |-> session, part |-> part, name |-> name]

MainNoPath == MainPath("", 0, "", NoName)

\* What the host does to the library call of a main.py request:
\*   "lib_raise"     reportlab / PyPDF2 raises before the output file exists
\*   "write_partial" the write of the output file raises after creating it
MainEnvs == {"ok", "lib_raise", "write_partial"}

MainUploads ==
    UploadsOfSize({Named(".png"), Named(".pdf")}, 1)
        \cup UploadsOfSize({Named(".pdf")}, MAX_FILE_SIZE + 1)

MainFileLists == UNION {[1..n -> MainUploads] : n \in 0..MaxFiles}

MainBlank ==
    [pc |-> "new", endpoint |-> "none", files |-> <<>>, mode |-> "",
     status |-> 0, detail |-> "", body |-> "none", bodyPath |-> MainNoPath,
     inputs |-> {}, outputs |-> {}, conv |-> <<>>, filename |-> NoName,
     sections |-> <<>>]

\* The output file a library call leaves, by what the host did.
MainWritten(env, output_path) ==
    IF env = "lib_raise" THEN {} ELSE {output_path}

\* main.py: handle_single_conversion. The finally block removes the input
\* and keeps the output.
MainHandleSingle(q, r, env, fs) ==
    LET file        == q.files[1]
        input_path  == MainPath("uploads", r, "_", file.filename)
        output_path == MainPath("output", r, "", Named(".pdf"))
        outs        == MainWritten(env, output_path)
        fs1         == ((fs \cup {input_path}) \cup outs) \ {input_path}
    IN [q  |-> [q EXCEPT !.pc = "responding",
                         !.status = IF env = "ok" THEN 200 ELSE 500,
                         !.detail = IF env = "ok" THEN "" ELSE "single-conversion-failed",
                         !.body = IF env = "ok" THEN "file" ELSE "error",
                         !.bodyPath = IF env = "ok" THEN output_path ELSE MainNoPath,
                         !.inputs = {input_path}, !.outputs = outs,
                         !.conv = <<"reportlab">>,
                         !.filename =
                             IF env = "ok"
                             THEN [stem |-> "converted_" \o file.filename.stem
                                                \o file.filename.suffix,
                                   suffix |-> ".pdf"]
                             ELSE NoName],
        fs |-> fs1]

\* main.py: handle_multiple_conversion. The finally block removes every input
\* in input_paths.
MainHandleMultiple(q, r, env, fs) ==
    LET ins == {MainPath("uploads", r, "_" \o ToString(i - 1) \o "_",
                         q.files[i].filename) : i \in DOMAIN q.files}
        output_path == MainPath("output", r, "_combined", Named(".pdf"))
        outs        == MainWritten(env, output_path)
        fs1         == ((fs \cup ins) \cup outs) \ ins
    IN [q  |-> [q EXCEPT !.pc = "responding",
                         !.status = IF env = "ok" THEN 200 ELSE 500,
                         !.detail = IF env = "ok" THEN "" ELSE "multiple-conversion-failed",
                         !.body = IF env = "ok" THEN "file" ELSE "error",
                         !.bodyPath = IF env = "ok" THEN output_path ELSE MainNoPath,
                         !.inputs = ins, !.outputs = outs,
                         !.conv = <<"reportlab">>,
                         !.filename =
                             IF env = "ok"
                             THEN [stem |-> "combined_document", suffix |-> ".pdf"]
                             ELSE NoName],
        fs |-> fs1]

\* main.py: POST /convert/to-pdf, from the call to the return of the handler.
MainConvertToPdf(r, files, conversion_type, env) ==
    /\ mainReq[r].pc = "new"
    /\ LET q0 == [MainBlank EXCEPT !.endpoint = "to-pdf", !.files = files,
                                   !.mode = conversion_type]
           res == IF files = <<>>
                  THEN [q  |-> [q0 EXCEPT !.pc = "responding", !.status = 400,
                                          !.detail = "no-files", !.body = "error"],
                        fs |-> mainFs]
                  ELSE IF conversion_type = "single" /\ Len(files) = 1
                  THEN MainHandleSingle(q0, r, env, mainFs)
                  ELSE MainHandleMultiple(q0, r, env, mainFs)
       IN /\ mainReq' = [mainReq EXCEPT ![r] = res.q]
          /\ mainFs' = res.fs
    /\ UNCHANGED notMain

\* str.strip() on the page texts the model sends.
Strip(t) == IF t = " " THEN "" ELSE t

\* The PDFs the model uploads to /convert/from-pdf, as what
\* page.extract_text() gives for each page: "" for a page without a text
\* layer (a scan), " " for one that holds white space only.
SamplePdfs == {<<"a">>, <<"a", "b">>, <<"a", "">>, <<" ", "b">>}

\* main.py lines 295-299: for page_num, page in enumerate(reader.pages, 1):
\* a "--- Page n ---" section for each page whose text.strip() is not empty.
\* The sections written for pages[1..n].
RECURSIVE MainTextSections(_, _)
MainTextSections(pages, n) ==
    IF n = 0 THEN <<>>
    ELSE LET before == MainTextSections(pages, n - 1) IN
         IF Strip(pages[n]) # ""
         THEN Append(before, [page |-> n, text |-> pages[n]])
         ELSE before

\* main.py: extract_text_from_pdf. The finally block removes the uploaded PDF.
MainExtractText(q, r, pdf_path, env, fs) ==
    LET output_path == MainPath("output", r, "", Named(".txt"))
        outs        == MainWritten(env, output_path)
        pages       == q.files[1].pages
    IN [q  |-> [q EXCEPT !.pc = "responding",
                         !.sections = IF env = "ok"
                                      THEN MainTextSections(pages, Len(pages))
                                      ELSE <<>>,
                         !.status = IF env = "ok" THEN 200 ELSE 500,
                         !.detail = IF env = "ok" THEN "" ELSE "server-error",
                         !.body = IF env = "ok" THEN "file" ELSE "error",
                         !.bodyPath = IF env = "ok" THEN output_path ELSE MainNoPath,
                         !.outputs = outs, !.conv = <<"PyPDF2">>],
        fs |-> (fs \cup outs) \ {pdf_path}]

MainFormats == {"text", "image", "docx"}

\* What the model sends to /convert/from-pdf: each PDF upload with one of the
\* sample documents as its content.
MainFromPdfUploads ==
    {[filename |-> up.filename, size |-> up.size, pages |-> d] :
        up \in {u \in MainUploads : Lower(u.filename.suffix) = ".pdf" /\ u.size = 1},
        d \in SamplePdfs}
    \cup {[filename |-> up.filename, size |-> up.size, pages |-> <<>>] :
             up \in {u \in MainUploads : ~(Lower(u.filename.suffix) = ".pdf" /\ u.size = 1)}}

\* main.py: POST /convert/from-pdf, from the call to the return of the handler.
MainConvertFromPdf(r, up, format_type, env) ==
    /\ mainReq[r].pc = "new"
    /\ LET q0 == [MainBlank EXCEPT !.endpoint = "from-pdf", !.files = <<up>>,
                                   !.mode = format_type]
           input_path == MainPath("uploads", r, "_", up.filename)
           q1  == [q0 EXCEPT !.inputs = {input_path}]
           res == IF Lower(up.filename.suffix) # ".pdf"
                  THEN [q  |-> [q0 EXCEPT !.pc = "responding", !.status = 400,
                                          !.detail = "only-pdf", !.body = "error"],
                        fs |-> mainFs]
                  ELSE IF format_type = "text"
                  THEN MainExtractText(q1, r, input_path, env, mainFs \cup {input_path})
                  ELSE [q  |-> [q1 EXCEPT !.pc = "responding", !.status = 501,
                                          !.detail = "format-not-implemented",
                                          !.body = "error"],
                        fs |-> mainFs \cup {input_path}]
       IN /\ mainReq' = [mainReq EXCEPT ![r] = res.q]
          /\ mainFs' = res.fs
    /\ UNCHANGED notMain

\* Starlette sends the response after the handler has returned; a FileResponse
\* reads its path then.
MainStream(r) ==
    /\ mainReq[r].pc = "responding"
    /\ mainReq' = [mainReq EXCEPT ![r].pc =
           IF mainReq[r].body = "file" /\ mainReq[r].bodyPath \notin mainFs
           THEN "aborted" ELSE "done"]
    /\ UNCHANGED <<mainFs, notMain>>

InitMain ==
    /\ mainFs = {}
    /\ mainReq = [r \in Reqs |-> MainBlank]

NextMain ==
    \/ \E r \in Reqs, files \in MainFileLists,
          t \in {"single", "multiple"}, env \in MainEnvs :
           MainConvertToPdf(r, files, t, env)
    \/ \E r \in Reqs, up \in MainFromPdfUploads, f \in MainFormats, env \in MainEnvs :
           MainConvertFromPdf(r, up, f, env)
    \/ \E r \in Reqs : MainStream(r)

(***************************************************************************)
(* application.py: rate_limit                                              *)
(***************************************************************************)

\* Requests application.py receives in one run.
MaxCalls == 6

\* request.remote_addr of the clients the model lets call.
Clients == {"10.0.0.1", "10.0.0.2"}

\* The rate-limited routes and the arguments their decorators pass
\* (application.py lines 193, 246).
Endpoints == {"/info", "/download"}
MaxRequests(e) == IF e = "/info" THEN 15 ELSE 5
Window(e) == 60

\* The legacy routes /youtube, /instagram, /facebook, /twitter: four handlers
\* of one shape behind rate_limit(max_requests=5, window=60) (lines 375-441).
\* "/youtube" stands for them.
Legacy == "/youtube"
Decorated == Endpoints \cup {Legacy}

\* The instants at which the model lets time.time() be read.
ClockSamples == {0, 59, 60}

\* application.py lines 58-61: the timestamps younger than the window.
CleanOld(times, current_time, window) ==
    LET Young(req_time) == current_time - req_time < window
    IN SelectSeq(times, Young)

\* application.py line 63, with > for >=
RateExceededOffByOne(times, max_requests) == Len(times) > max_requests

\* application.py line 63
RateExceeded(times, max_requests) == Len(times) >= max_requests

\* application.py lines 63-65, with the rejected request's time kept in the
\* client's list
RejectedButCounted(kept, current_time) == Append(kept, current_time)

\* application.py lines 63-65: the 429 answer leaves the pruned list as it is.
Rejected(kept, current_time) == kept

\* application.py lines 51-67: one pass through decorated_function of
\* rate_limit(MaxRequests(e), Window(e)) for a client whose list is times:
\* whether the handler is called, and the client's list afterwards.
RateDecide(times, current_time, e) ==
    LET kept == CleanOld(times, current_time, Window(e)) IN
    IF RateExceeded(kept, MaxRequests(e))
    THEN [ok |-> FALSE, times |-> Rejected(kept, current_time)]
    ELSE [ok |-> TRUE, times |-> Append(kept, current_time)]

\* A request of the history: the route, when rate_limit read the clock,
\* whether the body had a url, the status answered, the decorator that
\* answered 429 ("" when none did), and whether the body of download_media
\* was entered.
Answer(e, t, has_url, status, limited_by, reached) ==
    [endpoint |-> e, time |-> t, has_url |-> has_url, status |-> status,
     limited_by |-> limited_by, reached |-> reached]

\* application.py: decorated_function of rate_limit(max_requests, window),
\* wrapped around the handler of endpoint e, called for client c. What the
\* handler answers once it is called is written 200 here.
RateLimit(c, e) ==
    LET d == RateDecide(request_counts[c], now, e) IN
    /\ calls < MaxCalls
    /\ calls' = calls + 1
    /\ request_counts' = [request_counts EXCEPT ![c] = d.times]
    /\ admitted' = IF d.ok THEN [admitted EXCEPT ![<<c, e>>] = Append(@, now)]
                   ELSE admitted
    /\ answered' = [answered EXCEPT ![c] = Append(@,
           IF d.ok THEN Answer(e, now, TRUE, 200, "", e = "/download")
           ELSE Answer(e, now, TRUE, 429, e, FALSE))]
    /\ UNCHANGED <<now, notRate>>

\* application.py: a legacy route (lines 375-390). Its own decorator runs;
\* the handler answers 400 without a url; "request.json = data" assigns to
\* an attribute of the Request object, which raises AttributeError where the
\* installed Werkzeug defines json as a property without a setter (settable
\* FALSE; the except clause answers 500); then it calls download_media, the
\* module-level name, which is bound to the decorated function, so
\* rate_limit(5, 60) of /download runs for the same request.
LegacyDownload(c, has_url, settable) ==
    LET outer == RateDecide(request_counts[c], now, Legacy)
        inner == RateDecide(outer.times, now, "/download")
        inside == outer.ok /\ has_url /\ settable
    IN
    /\ calls < MaxCalls
    /\ calls' = calls + 1
    /\ request_counts' = [request_counts EXCEPT ![c] =
           IF inside THEN inner.times ELSE outer.times]
    /\ admitted' = [admitted EXCEPT
           ![<<c, Legacy>>] = IF outer.ok THEN Append(@, now) ELSE @,
           ![<<c, "/download">>] = IF inside /\ inner.ok THEN Append(@, now) ELSE @]
    /\ answered' = [answered EXCEPT ![c] = Append(@,
           IF ~outer.ok THEN Answer(Legacy, now, has_url, 429, Legacy, FALSE)
           ELSE IF ~has_url THEN Answer(Legacy, now, has_url, 400, "", FALSE)
           ELSE IF ~settable THEN Answer(Legacy, now, has_url, 500, "", FALSE)
           ELSE IF ~inner.ok THEN Answer(Legacy, now, has_url, 429, "/download", FALSE)
           ELSE Answer(Legacy, now, has_url, 200, "", TRUE))]
    /\ UNCHANGED <<now, notRate>>

\* Time passes between two requests.
Tick(t) ==
    /\ t > now
    /\ now' = t
    /\ UNCHANGED <<request_counts, admitted, calls, answered, notRate>>

InitRate ==
    /\ now = 0
    /\ request_counts = [c \in Clients |-> <<>>]
    /\ admitted = [k \in Clients \X Decorated |-> <<>>]
    /\ calls = 0
    /\ answered = [c \in Clients |-> <<>>]

NextRate ==
    \/ \E c \in Clients, e \in Endpoints : RateLimit(c, e)
    \/ \E t \in ClockSamples : Tick(t)

\* The traffic of one client on a legacy route and on /download, up to
\* MaxLegacyCalls requests.
LegacyClients == {"10.0.0.1"}
MaxLegacyCalls == 5

NextLegacy ==
    \/ \E c \in LegacyClients, has_url \in BOOLEAN, settable \in BOOLEAN :
           calls < MaxLegacyCalls /\ LegacyDownload(c, has_url, settable)
    \/ \E c \in LegacyClients :
           calls < MaxLegacyCalls /\ RateLimit(c, "/download")
    \/ \E t \in ClockSamples : Tick(t)

(***************************************************************************)
(* application.py: get_media_info and download_media                       *)
(***************************************************************************)

\* Transient network failures the host may put in front of one extraction.
MaxFailures == 4

\* request.get_json(): no body or no 'url' key, or a body with url, quality
\* and format. A url is whether urlparse finds scheme and netloc, and its host.
NoData == [has_url |-> FALSE, url |-> [valid |-> FALSE, host |-> ""],
           quality |-> "best", format |-> "mp4"]

SampleHosts == {"youtube.com", "instagram.com", "x.com", "example.com"}

SampleData ==
    {NoData}
    \cup {[has_url |-> TRUE, url |-> [valid |-> FALSE, host |-> ""],
           quality |-> "best", format |-> "mp4"]}
    \cup {[has_url |-> TRUE, url |-> [valid |-> TRUE, host |-> h],
           quality |-> q, format |-> f] :
             h \in SampleHosts, q \in {"best", "low"}, f \in {"mp4", "mp3"}}

\* application.py: is_valid_url
IsValidUrl(url) == url.valid

\* application.py: detect_platform, on the hosts the model sends.
DetectPlatform(url) ==
    CASE url.host = "youtube.com"   -> "youtube"
      [] url.host = "instagram.com" -> "instagram"
      [] url.host = "x.com"         -> "twitter"
      [] OTHER                      -> "generic"

\* application.py lines 209-215: ydl_opts of get_media_info
InfoYdlOpts ==
    [format |-> "", socket_timeout |-> 30, retries |-> 3, postprocessors |-> <<>>]

\* application.py lines 266-303: ydl_opts of download_media, assignment by
\* assignment: the default, the quality, mp3, the platform.
DownloadYdlOpts(quality, format_type, platform) ==
    LET f0 == "best[ext=mp4]/best"
        f1 == CASE quality = "high"   -> "best[height<=1080]/best"
                [] quality = "medium" -> "best[height<=720]/best"
                [] quality = "low"    -> "worst[height>=360]/worst"
                [] OTHER              -> f0
        f2 == IF format_type = "mp3" THEN "bestaudio/best" ELSE f1
        f3 == CASE platform = "instagram" -> "best"
                [] platform = "twitter"   -> "best[ext=mp4]"
                [] platform = "tiktok"    -> "best[ext=mp4]/best"
                [] platform = "facebook"  -> "best[ext=mp4]/best"
                [] OTHER                  -> f2
    IN [format |-> f3, socket_timeout |-> 30, retries |-> 3,
        postprocessors |-> IF format_type = "mp3"
                           THEN <<"FFmpegExtractAudio">> ELSE <<>>]

\* What extract_info may return. url and a format's url are "<absent>" when
\* the key is missing and "<none>" when it is there with None.
NoInfo == [kind |-> "none", url |-> "<absent>", formats |-> <<>>]
Info(url, formats) == [kind |-> "info", url |-> url, formats |-> formats]
Fmt(url, ext) == [url |-> url, ext |-> ext]

SampleInfos ==
    {NoInfo,
     Info("u0", <<>>),
     Info("<none>", <<>>),
     Info("<absent>", <<>>),
     Info("<absent>", <<Fmt("f1", "webm"), Fmt("f2", "mp4"), Fmt("f3", "mp4")>>),
     Info("<absent>", <<Fmt("f1", "webm"), Fmt("f2", "webm")>>),
     Info("<absent>", <<Fmt("<absent>", "mp4"), Fmt("<none>", "webm")>>),
     Info("<absent>", <<Fmt("f1", "webm"), Fmt("<absent>", "webm")>>)}

\* What the network and the site do to one extraction: failures is how many
\* transient network failures come first, result what the site gives once
\* the network works ("info", "DownloadError" for private or deleted media,
\* "Exception" for anything else), retried how many times the library tried
\* again: at most the retry count it was configured with, and no more often
\* than there were failures.
Nets(opts) ==
    {[failures |-> f, retried |-> k, result |-> x] :
        f \in 0..MaxFailures, k \in 0..opts.retries,
        x \in {"info", "DownloadError", "Exception"}}

\* yt_dlp.YoutubeDL(ydl_opts).extract_info(url, download=False): the attempts
\* made and what comes back.
YdlExtractInfo(opts, net, info) ==
    LET retried == IF net.retried <= net.failures THEN net.retried ELSE net.failures IN
    [attempts |-> retried + 1,
     raised   |-> IF retried < net.failures THEN "DownloadError"
                  ELSE IF net.result = "info" THEN "" ELSE net.result,
     info     |-> IF retried < net.failures \/ net.result # "info" THEN NoInfo ELSE info]

MediaIdle ==
    [pc |-> "idle", endpoint |-> "", data |-> NoData, platform |-> "",
     ydl_opts |-> InfoYdlOpts, extract_calls |-> 0, attempts |-> 0,
     status |-> 0, error |-> "", download_url |-> "",
     info |-> NoInfo]     \* history: what extract_info returned

MediaAnswer(q, status, error) ==
    [q EXCEPT !.pc = "responding", !.status = status, !.error = error]

\* application.py: get_media_info (lines 194-242), after rate_limit has let
\* the request through.
GetMediaInfo(data, net, info) ==
    /\ media.pc = "idle"
    /\ LET q0 == [MediaIdle EXCEPT !.endpoint = "/info", !.data = data]
           q1 == [q0 EXCEPT !.platform = DetectPlatform(data.url),
                            !.ydl_opts = InfoYdlOpts]
           x  == YdlExtractInfo(q1.ydl_opts, net, info)
           q2 == [q1 EXCEPT !.extract_calls = 1, !.attempts = x.attempts,
                            !.info = x.info]
       IN media' =
            IF ~data.has_url THEN MediaAnswer(q0, 400, "URL is required")
            ELSE IF ~IsValidUrl(data.url)
            THEN MediaAnswer(q0, 400, "Invalid URL format")
            ELSE IF x.raised # "" \/ x.info.kind = "none"
            THEN MediaAnswer(q2, 500, "Failed to extract media information")
            ELSE MediaAnswer(q2, 200, "")
    /\ UNCHANGED notMedia

\* application.py lines 317-326: the first format in list order that has a
\* url and ext 'mp4', else the last format. formats is not empty.
RECURSIVE FirstMp4(_, _)
FirstMp4(formats, i) ==
    IF i > Len(formats) THEN 0
    ELSE IF formats[i].url \notin {"<absent>", "<none>"} /\ formats[i].ext = "mp4"
    THEN i
    ELSE FirstMp4(formats, i + 1)

\* application.py lines 317-326 with the last format taken whatever the
\* loop found
BestFormatLast(formats) == formats[Len(formats)]

BestFormat(formats) ==
    IF FirstMp4(formats, 1) # 0 THEN formats[FirstMp4(formats, 1)]
    ELSE formats[Len(formats)]

\* application.py lines 309-352: from the extracted info to the response.
DownloadAnswer(q, info) ==
    IF info.kind = "none"
    THEN MediaAnswer(q, 400, "Could not extract media information")
    ELSE IF info.url = "<absent>" /\ info.formats = <<>>
    THEN MediaAnswer(q, 400, "No downloadable formats found")
    ELSE LET download_url == IF info.url # "<absent>" THEN info.url
                             ELSE BestFormat(info.formats).url
         IN CASE download_url = "<absent>" ->
                    MediaAnswer(q, 500, "An unexpected error occurred")
              [] download_url = "<none>" ->
                    MediaAnswer(q, 400, "Could not get download URL")
              [] OTHER ->
                    [MediaAnswer(q, 200, "") EXCEPT !.download_url = download_url]

\* application.py: download_media (lines 247-369), after rate_limit has let
\* the request through.
DownloadMedia(data, net, info) ==
    /\ media.pc = "idle"
    /\ LET q0 == [MediaIdle EXCEPT !.endpoint = "/download", !.data = data]
           platform == DetectPlatform(data.url)
           q1 == [q0 EXCEPT !.platform = platform,
                            !.ydl_opts = DownloadYdlOpts(data.quality, data.format,
                                                         platform)]
           x  == YdlExtractInfo(q1.ydl_opts, net, info)
           q2 == [q1 EXCEPT !.extract_calls = 1, !.attempts = x.attempts,
                            !.info = x.info]
       IN media' =
            IF ~data.has_url THEN MediaAnswer(q0, 400, "URL is required")
            ELSE IF ~IsValidUrl(data.url)
            THEN MediaAnswer(q0, 400, "Invalid URL format")
            ELSE CASE x.raised = "DownloadError" -> MediaAnswer(q2, 400, "Download failed")
                   [] x.raised = "Exception" ->
                          MediaAnswer(q2, 500, "An unexpected error occurred")
                   [] OTHER -> DownloadAnswer(q2, x.info)
    /\ UNCHANGED notMedia

\* Flask sends the response; the worker takes the next request.
MediaRespond ==
    /\ media.pc = "responding"
    /\ media' = MediaIdle
    /\ UNCHANGED notMedia

InitMedia == media = MediaIdle

NextMedia ==
    \/ \E data \in SampleData, net \in Nets(InfoYdlOpts), info \in SampleInfos :
           GetMediaInfo(data, net, info)
    \/ \E data \in SampleData, net \in Nets(InfoYdlOpts), info \in SampleInfos :
           DownloadMedia(data, net, info)
    \/ MediaRespond

(***************************************************************************)
(* converters/pdf_generator.py: PDFGenerator.convert_single                *)
(***************************************************************************)

\* The session ids the callers pass.
Sessions == Reqs

\* The input files convert_single is called on: a suffix, and whether the
\* file is there.
GenInputs ==
    {[suffix |-> x, exists |-> e] :
        x \in {".png", ".PNG", ".txt", ".docx", ".xyz"}, e \in BOOLEAN}

\* What reportlab does when it is asked to build the document:
\*   "ok"         it builds and writes the output file
\*   "lib_raise"  it raises (an image it cannot read, markup it cannot parse)
GenEnvs == {"ok", "lib_raise"}

\* pdf_generator.py lines 18, 20: the extensions convert_single dispatches on.
GenImageExts == {".jpg", ".jpeg", ".png", ".webp", ".bmp", ".tiff"}
GenTextExts == {".txt"}

\* The result of a call: raised (an exception left the call), returned (the
\* output path handed back, as its session id, 0 for none), and out, what
\* the output file holds afterwards:
\*   "absent", "converted" (made of the input's content), "placeholder" (the
\*   fixed page of _create_simple_pdf).
GenResult(raised, returned, out) ==
    [raised |-> raised, returned |-> returned, out |-> out]

\* pdf_generator.py: _create_simple_pdf. os.path.getsize(file_path) raises for
\* a file that is not there, before c.save() writes the output.
CreateSimplePdf(input, session, before) ==
    IF ~input.exists THEN GenResult(TRUE, 0, before)
    ELSE GenResult(FALSE, session, "placeholder")

\* pdf_generator.py: _image_to_pdf (lines 68-95) and _text_to_pdf (lines
\* 97-118): build the document; on any exception fall back to
\* _create_simple_pdf.
BuildOrFallBack(input, session, env, before) ==
    IF env = "lib_raise" \/ ~input.exists
    THEN CreateSimplePdf(input, session, before)
    ELSE GenResult(FALSE, session, "converted")

\* pdf_generator.py: convert_single (lines 13-23)
ConvertSingleResult(input, session, env, before) ==
    LET file_ext == Lower(input.suffix) IN
    CASE file_ext \in GenImageExts -> BuildOrFallBack(input, session, env, before)
      [] file_ext \in GenTextExts  -> BuildOrFallBack(input, session, env, before)
      [] OTHER                     -> CreateSimplePdf(input, session, before)

NoGenCall ==
    [input |-> [suffix |-> "", exists |-> FALSE], session |-> 0, env |-> "ok",
     before |-> "absent", result |-> GenResult(FALSE, 0, "absent")]

\* A caller calls PDFGenerator().convert_single(input_path, session_id).
ConvertSingle(input, session, env) ==
    /\ LET res == ConvertSingleResult(input, session, env, genOut[session]) IN
       /\ genOut' = [genOut EXCEPT ![session] = res.out]
       /\ genCall' = [input |-> input, session |-> session, env |-> env,
                      before |-> genOut[session], result |-> res]
    /\ UNCHANGED notGen

InitGen ==
    /\ genOut = [x \in Sessions |-> "absent"]
    /\ genCall = NoGenCall

NextGen ==
    \E input \in GenInputs, session \in Sessions, env \in GenEnvs :
        ConvertSingle(input, session, env)

(***************************************************************************)
(* application.py: rate_limit with several requests of one client at once  *)
(***************************************************************************)

\* The requests that are inside decorated_function at the same time, each on
\* a thread of its own; all come from one client address and go to /download.
Threads == 1..3
ConcEndpoint == "/download"

\* The list of the client after k requests, handled one after the other at
\* time 0, were let through.
Earlier(k) == [i \in 1..k |-> 0]

\* A thread before line 51, and the state with no thread started.
ThreadIdle == [pc |-> "idle", current_time |-> 0, kept |-> <<>>, status |-> 0]

ConcStart(k) ==
    [clock |-> 0, request_counts |-> Earlier(k), admitted |-> Earlier(k),
     thread |-> [th \in Threads |-> ThreadIdle]]

\* application.py lines 51-61, right-hand side: the thread reads the clock
\* and builds the pruned list from the list it finds.
ConcPruneRead(th) ==
    /\ conc.thread[th].pc = "idle"
    /\ conc' = [conc EXCEPT !.thread[th] =
           [@ EXCEPT !.pc = "pruned", !.current_time = conc.clock,
                     !.kept = CleanOld(conc.request_counts, conc.clock,
                                       Window(ConcEndpoint))]]
    /\ UNCHANGED notConc

\* application.py line 58, the assignment: the list built is stored.
ConcPruneStore(th) ==
    /\ conc.thread[th].pc = "pruned"
    /\ conc' = [conc EXCEPT !.request_counts = conc.thread[th].kept,
                            !.thread[th].pc = "check"]
    /\ UNCHANGED notConc

\* application.py lines 63-65: the length check on the list as it is now.
ConcCheck(th) ==
    /\ conc.thread[th].pc = "check"
    /\ conc' = IF RateExceeded(conc.request_counts, MaxRequests(ConcEndpoint))
               THEN [conc EXCEPT !.thread[th].pc = "done", !.thread[th].status = 429]
               ELSE [conc EXCEPT !.thread[th].pc = "append"]
    /\ UNCHANGED notConc

\* application.py lines 67-68: the append, then the handler.
ConcAppend(th) ==
    /\ conc.thread[th].pc = "append"
    /\ conc' = [conc EXCEPT
           !.request_counts = Append(@, conc.thread[th].current_time),
           !.admitted = Append(@, conc.thread[th].current_time),
           !.thread[th].pc = "done", !.thread[th].status = 200]
    /\ UNCHANGED notConc

\* Time passes while requests are being handled.
ConcTick(t) ==
    /\ t > conc.clock
    /\ conc' = [conc EXCEPT !.clock = t]
    /\ UNCHANGED notConc

InitConc == \E k \in 0..(MaxRequests(ConcEndpoint) - 1) : conc = ConcStart(k)

ParkedConc == conc = ConcStart(0)

NextConc ==
    \/ \E th \in Threads : ConcPruneRead(th)
    \/ \E th \in Threads : ConcPruneStore(th)
    \/ \E th \in Threads : ConcCheck(th)
    \/ \E th \in Threads : ConcAppend(th)
    \/ \E t \in ClockSamples : ConcTick(t)

(***************************************************************************)
(* converters/pdf_extractor.py: PDFExtractor                               *)
(***************************************************************************)

\* Session ids of the callers; "a_temp" is such that its text output has the
\* name of the intermediate file of "a".
ExtSessions == {"a", "a_temp", "b"}

\* What the libraries do during a call: all work; PdfReader cannot read the
\* input; python-docx is not installed; it is not installed and os.rename
\* fails; building the document raises; doc.save raises after it created the
\* output file.
ExtEnvs == {"ok", "bad_pdf", "no_docx", "no_docx_rename_fails", "build_raises",
            "save_raises"}

\* pdf_extractor.py lines 47 and 89: os.path.join(self.output_dir, ...),
\* written without the directory.
TextPath(session_id) == session_id \o ".txt"
DocxPath(session_id) == session_id \o ".docx"

\* pdf_extractor.py lines 45-85: extract_text. The output file is written
\* after every page was read; a failure before that raises.
ExtractTextResult(fs, session_id, env) ==
    IF env = "bad_pdf"
    THEN [fs |-> fs, raised |-> TRUE, returned |-> ""]
    ELSE [fs |-> fs \cup {TextPath(session_id)}, raised |-> FALSE,
          returned |-> TextPath(session_id)]

\* pdf_extractor.py lines 127-130 with the removal left out
DocxFinallyKeepText(fs, text_path, output_path) == fs

\* pdf_extractor.py lines 127-130: the finally clause of convert_to_docx.
DocxFinally(fs, text_path, output_path) ==
    IF text_path \in fs /\ text_path # output_path THEN fs \ {text_path} ELSE fs

\* pdf_extractor.py lines 87-133: convert_to_docx.
ConvertToDocxResult(fs, session_id, env) ==
    LET output_path == DocxPath(session_id)
        ex == ExtractTextResult(fs, session_id \o "_temp", env)
        text_path == ex.returned
    IN
    IF ex.raised
    THEN [fs |-> ex.fs, text_written |-> FALSE, raised |-> TRUE, returned |-> ""]
    ELSE CASE env = "ok" ->
                [fs |-> DocxFinally(ex.fs \cup {output_path}, text_path, output_path),
                 text_written |-> TRUE, raised |-> FALSE, returned |-> output_path]
           [] env = "no_docx" ->
                [fs |-> DocxFinally((ex.fs \ {text_path}) \cup {output_path},
                                    text_path, output_path),
                 text_written |-> TRUE, raised |-> FALSE, returned |-> output_path]
           [] env = "save_raises" ->
                [fs |-> DocxFinally(ex.fs \cup {output_path}, text_path, output_path),
                 text_written |-> TRUE, raised |-> TRUE, returned |-> ""]
           [] OTHER ->
                [fs |-> DocxFinally(ex.fs, text_path, output_path),
                 text_written |-> TRUE, raised |-> TRUE, returned |-> ""]

NoExtCall ==
    [op |-> "none", session |-> "", env |-> "", text_written |-> FALSE,
     raised |-> FALSE, returned |-> ""]

\* A caller runs extract_text.
ExtractText(session_id, env) ==
    LET r == ExtractTextResult(extFs, session_id, env) IN
    /\ extFs' = r.fs
    /\ extCall' = [op |-> "extract_text", session |-> session_id, env |-> env,
                   text_written |-> ~r.raised, raised |-> r.raised,
                   returned |-> r.returned]
    /\ UNCHANGED notExt

\* A caller runs convert_to_docx.
ConvertToDocx(session_id, env) ==
    LET r == ConvertToDocxResult(extFs, session_id, env) IN
    /\ extFs' = r.fs
    /\ extCall' = [op |-> "convert_to_docx", session |-> session_id, env |-> env,
                   text_written |-> r.text_written, raised |-> r.raised,
                   returned |-> r.returned]
    /\ UNCHANGED notExt

InitExt == extFs = {} /\ extCall = NoExtCall

ParkedExt == InitExt

NextExt ==
    \/ \E session_id \in ExtSessions, env \in {"ok", "bad_pdf"} :
           ExtractText(session_id, env)
    \/ \E session_id \in ExtSessions, env \in ExtEnvs :
           ConvertToDocx(session_id, env)

InitAap ==
    /\ aapFiles = {}
    /\ aapReq = [r \in Reqs |-> AapBlank]

NextAap ==
    \/ \E r \in Reqs, up \in AapUploads, env \in Envs : AapConvertToPdf(r, up, env)
    \/ \E r \in Reqs, up \in AapUploads, f \in AapFormats, env \in Envs :
           AapConvertFromPdf(r, up, f, env)
    \/ \E r \in Reqs : AapStream(r)

(***************************************************************************)
(* Claims                                                                  *)
(***************************************************************************)

Is4xx(status) == status \in 400..499

\* The extensions convert_to_pdf recognizes (aap.py lines 78-125, app.py
\* lines 102-141).
Recognized(ext) == ext \in ImageExts \cup TextExts \cup OfficeExts \cup {".pdf"}

\* C1: in aap.py, once a handler has finished (returned or raised) after saving
\* the upload, neither the temp input file nor a LibreOffice output written
\* next to it exists any more.
C1_NoTempFileLeft ==
    \A r \in Reqs :
        aapReq[r].pc # "new" => aapReq[r].created \cap aapFiles = {}

\* C1 witness: a docx conversion that timed out after LibreOffice had written
\* its output: input and output were both created, and the handler is over.
C1_Witness ==
    \E r \in Reqs :
        /\ aapReq[r].pc # "new"
        /\ aapReq[r].detail = "timeout"
        /\ aapReq[r].tmp_in \in aapReq[r].created
        /\ WithSuffix(aapReq[r].tmp_in, ".docx") \in aapReq[r].created

\* C2: in aap.py the converted output file (office -> PDF, PDF -> DOCX) is
\* deleted only after the response body has been streamed completely, and it
\* is never opened after it has been deleted.
C2_OutputDeletedAfterStreaming ==
    \A r \in Reqs :
        (aapReq[r].body = "iter_file" /\ aapReq[r].bodyPath \notin aapFiles)
            => aapReq[r].pc = "done"

\* C3: in app.py POST /convert/to-pdf, when the conversion of an input has
\* failed, every temp directory (and file) the request created is gone by the
\* time the error response is produced.
C3_FailureRemovesTempDirs ==
    \A r \in Reqs :
        (/\ appReq[r].endpoint = "to-pdf"
         /\ appReq[r].pc = "done"
         /\ appReq[r].failedAt > 0)
            => appReq[r].created \cap appFs = {}

\* C4: in app.py the cleanup of a request removes only paths that request
\* created: never the shared temp root, never a path of another request.
C4_CleanupRemovesOnlyOwnPaths ==
    \A r \in Reqs : appReq[r].removed \subseteq appReq[r].created

\* C5: in main.py the output artifact written under temp/output is deleted
\* once the response body has been sent, and at once when the request fails:
\* after any request, none of its output files is left.
C5_OutputDeleted ==
    \A r \in Reqs :
        (\/ mainReq[r].pc = "done"
         \/ (mainReq[r].pc # "new" /\ mainReq[r].status >= 400))
            => mainReq[r].outputs \cap mainFs = {}

\* C6: in main.py POST /convert/from-pdf, the uploaded PDF written under
\* temp/uploads is deleted on every exit path of the request.
C6_UploadedPdfDeleted ==
    \A r \in Reqs :
        (mainReq[r].endpoint = "from-pdf" /\ mainReq[r].pc # "new")
            => mainReq[r].inputs \cap mainFs = {}

\* C7: in aap.py and main.py an upload larger than the configured maximum is
\* rejected with a client error before a temp file is created for it and
\* before a converter is invoked.
C7_OversizeRejected ==
    /\ \A r \in Reqs :
           (aapReq[r].pc # "new" /\ aapReq[r].upload.size > MAX_UPLOAD_SIZE)
               => /\ Is4xx(aapReq[r].status)
                  /\ aapReq[r].created = {}
                  /\ aapReq[r].conv = <<>>
    /\ \A r \in Reqs :
           (/\ mainReq[r].pc # "new"
            /\ \E i \in DOMAIN mainReq[r].files :
                   mainReq[r].files[i].size > MAX_FILE_SIZE)
               => /\ Is4xx(mainReq[r].status)
                  /\ mainReq[r].inputs = {}
                  /\ mainReq[r].conv = <<>>

\* C8: POST /convert/to-pdf in aap.py and in app.py answers an upload whose
\* lower-cased extension is not recognized with a 4xx status, invokes no
\* converter for it and produces no output artifact.
C8_UnsupportedIsClientError ==
    /\ \A r \in Reqs :
           (/\ aapReq[r].endpoint = "to-pdf"
            /\ aapReq[r].pc # "new"
            /\ ~Recognized(Lower(aapReq[r].upload.filename.suffix)))
               => /\ Is4xx(aapReq[r].status)
                  /\ aapReq[r].conv = <<>>
                  /\ aapReq[r].body = "error"
    /\ \A r \in Reqs :
           (/\ appReq[r].endpoint = "to-pdf"
            /\ appReq[r].failedAt > 0
            /\ ~Recognized(Lower(appReq[r].files[appReq[r].failedAt].filename.suffix)))
               => /\ Is4xx(appReq[r].status)
                  /\ <<"conv", appReq[r].failedAt>> \notin Range(appReq[r].events)
                  /\ appReq[r].body = "error"

C11_MergedInUploadOrder ==
    \A r \in Reqs :
        LET q == appReq[r] IN
        (/\ q.endpoint = "to-pdf" /\ q.pc = "done" /\ q.status = 200
         /\ q.as_single /\ Len(q.files) > 1)
            => /\ \A a, b \in DOMAIN q.pages :
                      a < b => \/ q.pages[a][1] < q.pages[b][1]
                               \/ /\ q.pages[a][1] = q.pages[b][1]
                                  /\ q.pages[a][2] < q.pages[b][2]
               /\ \A k \in DOMAIN q.files :
                      {q.pages[a] : a \in {b \in DOMAIN q.pages : q.pages[b][1] = k}}
                          = Range(PdfPages(q.files, k))
               /\ \A a \in DOMAIN q.pages : q.pages[a][1] \in DOMAIN q.files

\* C11 witness: a merged response for an office document followed by an
\* image: three pages.
C11_Witness ==
    \E r \in Reqs :
        /\ appReq[r].endpoint = "to-pdf" /\ appReq[r].pc = "done"
        /\ appReq[r].status = 200 /\ appReq[r].as_single
        /\ Len(appReq[r].files) = 2
        /\ Lower(appReq[r].files[1].filename.suffix) \in OfficeExts
        /\ Len(appReq[r].pages) = 3

\* C12: in aap.py, when an office document (to-pdf) or a docx target
\* (from-pdf) is asked for and neither soffice nor libreoffice is found, the
\* request ends with a 5xx response whose reason names the missing dependency,
\* no subprocess is spawned (not once, so not twice either), and the temp
\* input file is deleted.
C12_MissingSofficeIs5xx ==
    \A r \in Reqs :
        (aapReq[r].pc # "new" /\ aapReq[r].soffice = "missing")
            => /\ aapReq[r].status \in 500..599
               /\ aapReq[r].detail = "soffice-not-found"
               /\ aapReq[r].conv = <<>>
               /\ aapReq[r].tmp_in \in aapReq[r].created
               /\ aapReq[r].tmp_in \notin aapFiles
               /\ aapReq[r].unlinked = <<aapReq[r].tmp_in>>

\* C12 witness: an office upload to /convert/to-pdf and a docx target of
\* /convert/from-pdf, both on a host without LibreOffice.
C12_Witness ==
    \E r1, r2 \in Reqs :
        /\ aapReq[r1].endpoint = "to-pdf" /\ aapReq[r1].soffice = "missing"
        /\ Lower(aapReq[r1].upload.filename.suffix) \in OfficeExts
        /\ aapReq[r2].endpoint = "from-pdf" /\ aapReq[r2].soffice = "missing"
        /\ aapReq[r2].format = "docx"

\* C13: in aap.py and app.py, when the LibreOffice subprocess runs into its
\* 180-second timeout or ends without the expected output file, the request
\* ends with a 5xx error response, and the temp input and every partial
\* output the request created are deleted.
C13_FailedSubprocessReleasesFiles ==
    /\ \A r \in Reqs :
           (/\ aapReq[r].pc # "new"
            /\ aapReq[r].detail \in {"timeout", "conversion-failed"})
               => /\ aapReq[r].status \in 500..599
                  /\ aapReq[r].created \cap aapFiles = {}
    /\ \A r \in Reqs :
           (/\ appReq[r].pc = "done"
            /\ appReq[r].detail \in {"timeout", "conversion-failed"})
               => /\ appReq[r].status \in 500..599
                  /\ appReq[r].created \cap appFs = {}

\* The target formats POST /convert/from-pdf offers.
SupportedFormats == {"image", "text", "docx"}

\* C14: POST /convert/from-pdf in aap.py, app.py and main.py answers a target
\* format outside image, text, docx with a 4xx status and a reason, before any
\* converter is invoked.
C14_BadFormatIsClientError ==
    /\ \A r \in Reqs :
           (/\ aapReq[r].endpoint = "from-pdf" /\ aapReq[r].pc # "new"
            /\ aapReq[r].format \notin SupportedFormats)
               => /\ Is4xx(aapReq[r].status)
                  /\ aapReq[r].detail # ""
                  /\ aapReq[r].conv = <<>>
    /\ \A r \in Reqs :
           (/\ appReq[r].endpoint = "from-pdf" /\ appReq[r].pc = "done"
            /\ appReq[r].format \notin SupportedFormats)
               => /\ Is4xx(appReq[r].status)
                  /\ appReq[r].detail # ""
                  /\ \A j \in DOMAIN appReq[r].events :
                         appReq[r].events[j][1] # "conv"
    /\ \A r \in Reqs :
           (/\ mainReq[r].endpoint = "from-pdf" /\ mainReq[r].pc # "new"
            /\ mainReq[r].mode \notin SupportedFormats)
               => /\ Is4xx(mainReq[r].status)
                  /\ mainReq[r].conv = <<>>

\* C15: every successful POST /convert/to-pdf response names, in
\* Content-Disposition, the upload's base name with its extension replaced by
\* .pdf (photo.png gives photo.pdf): aap.py for one upload, app.py and main.py
\* for a request with one upload.
C15_FilenameFromUpload ==
    /\ \A r \in Reqs :
           (/\ aapReq[r].endpoint = "to-pdf" /\ aapReq[r].pc # "new"
            /\ aapReq[r].status = 200)
               => aapReq[r].filename =
                      [stem |-> aapReq[r].upload.filename.stem, suffix |-> ".pdf"]
    /\ \A r \in Reqs :
           (/\ appReq[r].endpoint = "to-pdf" /\ appReq[r].pc = "done"
            /\ appReq[r].status = 200 /\ Len(appReq[r].files) = 1)
               => appReq[r].filename =
                      [stem |-> appReq[r].files[1].filename.stem, suffix |-> ".pdf"]
    /\ \A r \in Reqs :
           (/\ mainReq[r].endpoint = "to-pdf" /\ mainReq[r].pc # "new"
            /\ mainReq[r].status = 200 /\ Len(mainReq[r].files) = 1)
               => mainReq[r].filename =
                      [stem |-> mainReq[r].files[1].filename.stem, suffix |-> ".pdf"]

\* C16: POST /convert/from-pdf with the text format turns an N-page PDF into a
\* text body with exactly N page sections in page order, one per page
\* (main.py: one labelled section per page).
C16_OneSectionPerPage ==
    \A r \in Reqs :
        LET q == mainReq[r] IN
        (/\ q.endpoint = "from-pdf" /\ q.pc # "new"
         /\ q.mode = "text" /\ q.status = 200)
            => /\ Len(q.sections) = Len(q.files[1].pages)
               /\ \A i \in DOMAIN q.sections : q.sections[i].page = i

\* C17: in aap.py no temp path is removed more than once during a request:
\* every unlink the request makes is of a file it created, and no path is
\* unlinked twice, also when the upload already has the suffix .pdf, so that
\* tmp_in and tmp_in.with_suffix('.pdf') are one path.
C17_NoDoubleUnlink ==
    \A r \in Reqs :
        LET u == aapReq[r].unlinked IN
        /\ \A i, j \in DOMAIN u : i # j => u[i] # u[j]
        /\ Range(u) \subseteq aapReq[r].created

\* C17 witness: a finished /convert/to-pdf of an upload with the suffix .pdf:
\* both cleanup_path calls of the finally block were given the same path.
C17_Witness ==
    \E r \in Reqs :
        /\ aapReq[r].endpoint = "to-pdf" /\ aapReq[r].pc # "new"
        /\ aapReq[r].tmp_in # NoPath
        /\ WithSuffix(aapReq[r].tmp_in, ".pdf") = aapReq[r].tmp_in
        /\ aapReq[r].unlinked = <<aapReq[r].tmp_in>>

\* C18: every operation is attempted once. Within one request each converter
\* delegate and each media extraction is invoked at most once, and a failed
\* operation is not attempted again, neither by the handlers nor through a
\* retry count they configure on the delegate.
C18_AttemptedOnce ==
    /\ \A r \in Reqs : Len(aapReq[r].conv) <= 1
    /\ media.extract_calls <= 1
    /\ media.attempts <= 1

\* C19: in PDFGenerator, when the library raises while an image or a text
\* file is converted, convert_single signals the failure to its caller and
\* returns no output path; it returns an output path only for a PDF made of
\* the input's own content.
C19_LibraryFailureIsSignalled ==
    /\ (/\ genCall.session # 0
        /\ genCall.env = "lib_raise"
        /\ Lower(genCall.input.suffix) \in GenImageExts \cup GenTextExts)
           => genCall.result.raised /\ genCall.result.returned = 0
    /\ (/\ genCall.session # 0
        /\ Lower(genCall.input.suffix) \in GenImageExts \cup GenTextExts
        /\ genCall.result.returned # 0)
           => genCall.result.out = "converted"

\* C20: format dispatch fails closed: PDFGenerator.convert_single makes a PDF
\* only of an input whose lower-cased extension is in its table; for any
\* other extension the call fails and creates no output file.
C20_DispatchFailsClosed ==
    (/\ genCall.session # 0
     /\ Lower(genCall.input.suffix) \notin GenImageExts \cup GenTextExts)
        => /\ genCall.result.raised
           /\ genCall.result.returned = 0
           /\ genOut[genCall.session] = genCall.before

\* How many requests of client c the decorator of endpoint e has let through
\* with an admission time in (t - window, t].
AdmittedIn(c, e, t) ==
    Cardinality({i \in DOMAIN admitted[<<c, e>>] :
                    /\ t - Window(e) < admitted[<<c, e>>][i]
                    /\ admitted[<<c, e>>][i] <= t})

\* C10: with requests handled one at a time, for every client and every
\* instant t, at most max_requests of the client's requests have been let
\* through by rate_limit(max_requests, window) with an admission time in
\* (t - window, t].
C10_SlidingWindowLimit ==
    \A c \in Clients, e \in Endpoints, t \in 0..now :
        AdmittedIn(c, e, t) <= MaxRequests(e)

\* C10 witness: a client that got more than max_requests requests through
\* /download in all, which the window sliding past the oldest ones allows.
C10_Witness ==
    \E c \in Clients :
        Len(admitted[<<c, "/download">>]) > MaxRequests("/download")

\* C28: a 200 response of app.py POST /convert/to-pdf contains pages of every
\* input that was converted, whether or not as_single_pdf is set.
C28_EveryConvertedInputReturned ==
    \A r \in Reqs :
        LET q == appReq[r] IN
        (q.endpoint = "to-pdf" /\ q.pc = "done" /\ q.status = 200)
            => \A k \in Range(q.buffers) :
                   \E a \in DOMAIN q.pages : q.pages[a][1] = k

\* The formats of a list that have a url and ext 'mp4', by position.
Mp4WithUrl(formats) ==
    {i \in DOMAIN formats :
        formats[i].url \notin {"<absent>", "<none>"} /\ formats[i].ext = "mp4"}

\* The position download_media is to take its url from: the least position
\* of an mp4 format with a url, the last position when there is none.
Selected(formats) ==
    IF Mp4WithUrl(formats) # {}
    THEN CHOOSE i \in Mp4WithUrl(formats) : \A j \in Mp4WithUrl(formats) : i <= j
    ELSE Len(formats)

\* C25: a /download response with a download_url, built from an info without
\* top-level 'url' and with formats, carries the url of the first format in
\* list order that has a url and ext 'mp4', and the url of the last format
\* when no format is such.
C25_FirstMp4ElseLast ==
    ( /\ media.pc = "responding" /\ media.endpoint = "/download"
      /\ media.status = 200
      /\ media.info.kind = "info" /\ media.info.url = "<absent>"
      /\ media.info.formats # <<>> )
    => media.download_url = media.info.formats[Selected(media.info.formats)].url

\* C25 witness: an mp4 format with a url that is neither first nor last in
\* the list was chosen.
C25_Witness ==
    /\ media.pc = "responding" /\ media.endpoint = "/download"
    /\ media.status = 200 /\ media.info.url = "<absent>"
    /\ Len(media.info.formats) = 3
    /\ Selected(media.info.formats) = 2
    /\ media.download_url = media.info.formats[2].url

\* C26: when extract_info returned an info without top-level 'url' and
\* either without formats or with a selected format that carries no url,
\* /download answers 400.
C26_NoUrlIsClientError ==
    ( /\ media.pc = "responding" /\ media.endpoint = "/download"
      /\ media.info.kind = "info" /\ media.info.url = "<absent>"
      /\ \/ media.info.formats = <<>>
         \/ media.info.formats[Selected(media.info.formats)].url
               \in {"<absent>", "<none>"} )
    => media.status = 400

\* C27: every extraction /download starts for a request with format 'mp3'
\* is given the selector 'bestaudio/best'.
C27_Mp3SelectsBestAudio ==
    ( /\ media.pc = "responding" /\ media.endpoint = "/download"
      /\ media.extract_calls = 1 /\ media.data.format = "mp3" )
    => media.ydl_opts.format = "bestaudio/best"

\* The requests client c sent before its i-th one with a time inside the
\* window that ends at the i-th one.
Recent(c, i) ==
    {j \in 1..(i - 1) : answered[c][j].time > answered[c][i].time - Window(Legacy)}

\* C21: a request with a url to a legacy route, sent by a client whose
\* requests of the last 60 seconds were all requests with a url to the legacy
\* route and fewer than 5 in number, is not answered 429 and enters the
\* download logic.
C21_FiveLegacyRequestsServed ==
    \A c \in Clients : \A i \in DOMAIN answered[c] :
        ( /\ answered[c][i].endpoint = Legacy
          /\ answered[c][i].has_url
          /\ Cardinality(Recent(c, i)) < MaxRequests(Legacy)
          /\ \A j \in Recent(c, i) :
                 answered[c][j].endpoint = Legacy /\ answered[c][j].has_url )
        => answered[c][i].status # 429 /\ answered[c][i].reached

\* C22: a /download request of a client is answered 429 only when 5 of the
\* client's earlier /download requests were let through within the window,
\* whatever else the client sent.
C22_DownloadLimitedByDownloadsOnly ==
    \A c \in Clients : \A i \in DOMAIN answered[c] :
        (answered[c][i].endpoint = "/download" /\ answered[c][i].status = 429)
        => Cardinality({j \in Recent(c, i) :
                           /\ answered[c][j].endpoint = "/download"
                           /\ answered[c][j].status # 429})
              >= MaxRequests("/download")

\* The timestamps rate_limit appended for client c, over all decorators,
\* with a time in (lo, hi].
AdmittedTimes(c, lo, hi) ==
    UNION {{<<e, i>> : i \in {k \in DOMAIN admitted[<<c, e>>] :
                                 /\ lo < admitted[<<c, e>>][k]
                                 /\ admitted[<<c, e>>][k] <= hi}} :
           e \in Decorated}

ConcAdmittedIn(t) ==
    {i \in DOMAIN conc.admitted :
        t - Window(ConcEndpoint) < conc.admitted[i] /\ conc.admitted[i] <= t}

\* How often the time t occurs in a sequence of times.
Occurrences(times, t) == Cardinality({i \in DOMAIN times : times[i] = t})

\* C23: with requests of one client inside rate_limit at the same time, at
\* most max_requests of them are let through with a time inside any one
\* window, and every time appended on admission is still in the client's
\* list as long as it is younger than the window.
C23_ConcurrentLimitAndRetention ==
    /\ \A t \in 0..conc.clock : Cardinality(ConcAdmittedIn(t)) <= MaxRequests(ConcEndpoint)
    /\ \A t \in 0..conc.clock :
           conc.clock - t < Window(ConcEndpoint)
           => Occurrences(conc.request_counts, t) >= Occurrences(conc.admitted, t)

\* C29: after a call of convert_to_docx in which extract_text wrote the
\* intermediate text file, whether the call returned or raised, no file
\* exists at '<session_id>_temp.txt'.
C29_IntermediateTextRemoved ==
    (extCall.op = "convert_to_docx" /\ extCall.text_written)
    => TextPath(extCall.session \o "_temp") \notin extFs

\* C29 witness: a call that wrote the intermediate file and failed while
\* building the document; the intermediate file is gone, the text output of
\* an earlier extract_text of the same session is still there.
C29_Witness ==
    /\ extCall.op = "convert_to_docx" /\ extCall.session = "a"
    /\ extCall.text_written /\ extCall.raised /\ extCall.env = "build_raises"
    /\ "a.txt" \in extFs
    /\ "a_temp.txt" \notin extFs

InitSpecExt ==
    InitExt /\ InitAap /\ ParkedApp /\ InitMain /\ InitRate /\ InitMedia /\ InitGen
    /\ ParkedConc

SpecExt == InitSpecExt /\ [][NextExt]_vars

InitSpecConc ==
    InitConc /\ InitAap /\ ParkedApp /\ InitMain /\ InitRate /\ InitMedia /\ InitGen
    /\ ParkedExt

SpecConc == InitSpecConc /\ [][NextConc]_vars

InitSpecAap ==
    InitAap /\ ParkedApp /\ InitMain /\ InitRate /\ InitMedia /\ InitGen
    /\ ParkedConc /\ ParkedExt

SpecAap == InitSpecAap /\ [][NextAap]_vars

InitSpecApp ==
    InitApp /\ InitAap /\ InitMain /\ InitRate /\ InitMedia /\ InitGen
    /\ ParkedConc /\ ParkedExt

SpecApp == InitSpecApp /\ [][NextApp]_vars

InitSpecMain ==
    InitMain /\ InitAap /\ ParkedApp /\ InitRate /\ InitMedia /\ InitGen
    /\ ParkedConc /\ ParkedExt

SpecMain == InitSpecMain /\ [][NextMain]_vars

InitSpecRate ==
    InitRate /\ InitAap /\ ParkedApp /\ InitMain /\ InitMedia /\ InitGen
    /\ ParkedConc /\ ParkedExt

SpecRate == InitSpecRate /\ [][NextRate]_vars

SpecLegacy == InitSpecRate /\ [][NextLegacy]_vars

InitSpecMedia ==
    InitMedia /\ InitAap /\ ParkedApp /\ InitMain /\ InitRate /\ InitGen
    /\ ParkedConc /\ ParkedExt

SpecMedia == InitSpecMedia /\ [][NextMedia]_vars

InitSpecGen ==
    InitGen /\ InitAap /\ ParkedApp /\ InitMain /\ InitRate /\ InitMedia
    /\ ParkedConc /\ ParkedExt

SpecGen == InitSpecGen /\ [][NextGen]_vars

====
